---- MODULE Spec2Model ----
(***************************************************************************)
(* Model of AYESHA/core/mango_saver.py: a get-or-create cache of song and  *)
(* video records in front of a MongoDB database (Motor client).            *)
(*                                                                         *)
(* Every coroutine of the module is a call c of CallIds; its position      *)
(* pc[c] names the await it is suspended at.  A step of the model is the   *)
(* completion of that await plus all the synchronous Python code up to the *)
(* next await.  The store executes find_one / insert_one / create_index    *)
(* atomically.  init_db runs as a coroutine of its own (ipc).              *)
(***************************************************************************)
EXTENDS Integers, Sequences, FiniteSets, TLC

(* ------------------------------ bounds -------------------------------- *)
MaxCalls == 2       \* coroutines calling the cache during one run
MaxInits == 2       \* init_db invocations during one run
MaxFaults == 1      \* insert_one requests the store fails for a reason other than a duplicate key

CallIds == 1..MaxCalls
Keys == {"k1", "k2"}

None == "None"                  \* Python's None
NoDoc == [none |-> TRUE]        \* "no document": find_one's None, an unset local
NoDb == <<None, None>>          \* _db before the client exists

(* ------------------------- module-level names -------------------------- *)
DefaultUrl == "mongodb://localhost:27017"
DefaultDb == "mango_tv_db"
OtherUrl == "mongodb://other:27017"
OtherDb == "other_db"
Urls == {DefaultUrl, OtherUrl}
DbNames == {DefaultDb, OtherDb}
Addr == Urls \X DbNames         \* a database: <<address of the server, name>>

COL_SONGS == "mango_songs"
COL_VIDEOS == "mango_videos"
Colls == {COL_SONGS, COL_VIDEOS}

GetOps == {"get_track_by_youtube_id", "get_video_by_id_with_cache"}
SaveOps == {"save_song", "save_video"}
FindOps == {"get_song_by_youtube_id", "get_video_by_video_id"}
Ops == GetOps \cup SaveOps \cup FindOps
SongOps == {"get_track_by_youtube_id", "save_song", "get_song_by_youtube_id"}

\* a faulty routing: every operation works on the song collection
CollOf_one_collection(o) == COL_SONGS

\* the collection and the key field an operation works on
CollOf(o) == IF o \in SongOps THEN COL_SONGS ELSE COL_VIDEOS
KeyField(coll) == IF coll = COL_SONGS THEN "youtube_id" ELSE "video_id"
TypeOf(coll) == IF coll = COL_SONGS THEN "song" ELSE "video"

VARIABLES
    MONGO_URL, DB_NAME,     \* module configuration
    client, db,             \* the globals _client and _db (None until created)
    colls,                  \* colls[a][coll]: the documents of a collection, in insertion order
    indexes,                \* indexes[a][coll]: the declared indexes [field, unique]
    pc, op, key, fetcher,   \* per call: position, function called, key argument, fetch_if_missing
    found, fetched, doc,    \* per call: lookup result, fetcher's result, document built
    ret, err,               \* per call: value returned, error raised
    ipc, initsStarted, initsDone, initErr,   \* the init_db coroutine
    clock,                  \* datetime.utcnow(), advancing at each read
    faults,                 \* store faults injected so far
    nFetch, nInsert, nRead, \* per call: fetcher invocations, insert_one and find_one requests
    insertOutcome,          \* per call: how the store answered insert_one
    fetchOutcome,           \* per call: how the fetcher answered ("dict" or the error)
    absentAtCall,           \* per call: the key had no record when the call started
    overlap                 \* per call: the calls that were in flight at the same time

callVars == <<pc, op, key, fetcher, found, fetched, doc, ret, err>>
histVars == <<nFetch, nInsert, nRead, insertOutcome, fetchOutcome, absentAtCall, overlap>>
initVars == <<ipc, initsStarted, initsDone, initErr>>
cfgVars == <<MONGO_URL, DB_NAME, client, db>>
vars == <<cfgVars, colls, indexes, callVars, initVars, clock, faults, histVars>>

(* --------------------------- the document store ------------------------ *)
Get(d, f, default) == IF f \in DOMAIN d THEN d[f] ELSE default
IsDoc(d) == d # NoDoc

\* the positions of the documents of s whose field f is v
Matches(s, f, v) == {i \in 1..Len(s) : s[i][f] = v}
Min(S) == CHOOSE i \in S : \A j \in S : i <= j

\* a faulty find_one: the filter names a field no document has
find_one_wrong_field(s, f, v) == NoDoc

\* Collection.find_one({f: v}): the first match in natural order, or None
find_one(s, f, v) == IF Matches(s, f, v) = {} THEN NoDoc ELSE s[Min(Matches(s, f, v))]

HasUnique(idx, f) == [field |-> f, unique |-> TRUE] \in idx
NoDuplicates(s, f) == \A i, j \in 1..Len(s) : s[i][f] = s[j][f] => i = j

\* a faulty insert_one: the stored copy lacks the identifier
insert_one_without_id(s, d) == Append(s, [f \in DOMAIN d \ {"_id"} |-> d[f]])

\* a faulty insert_one: it replaces the documents that share the new one's key
insert_one_replacing(s, d) ==
    LET kf == IF "youtube_id" \in DOMAIN d THEN "youtube_id" ELSE "video_id"
    IN  Append(SelectSeq(s, LAMBDA x : x[kf] # d[kf]), d)

\* Collection.insert_one(d) accepted: the document is added to the collection
insert_one(s, d) == Append(s, d)

\* the server's answer to insert_one(d): a unique index rejects a second value
DuplicateKey(s, idx, d) ==
    \E ix \in idx : ix.unique /\ ix.field \in DOMAIN d /\ Matches(s, ix.field, d[ix.field]) # {}


(* ------------------------------ Python bits ---------------------------- *)
\* truthiness of a string-or-None value, as in `x or y` and `if x:`
Truthy(v) == v \notin {None, ""}
Or(a, b) == IF Truthy(a) THEN a ELSE b

\* what a fetch_if_missing callback may return: a dict with or without the key
\* field (empty, or naming some key), with or without descriptive fields
RawExample == [title |-> "Song A", artist |-> "Artist X"]
RawResults(kf) ==
    {[f \in {} |-> ""]} \cup {(kf :> v) @@ RawExample : v \in {""} \cup Keys}

\* every shape of fetcher result: each of the key field, title, thumbnail,
\* singer, artist and url absent, empty or set
WideRawResults(kf) ==
    LET rest == UNION {[D -> {"", "x"}] :
                          D \in SUBSET {"title", "thumbnail", "singer", "artist", "url"}}
    IN  rest \cup {(kf :> v) @@ r : v \in {""} \cup Keys, r \in rest}

\* a faulty normalisation: the artist is not used when the singer is missing
Normalize_without_artist(coll, raw, k) ==
    (KeyField(coll) :> Or(Get(raw, KeyField(coll), None), k))
      @@ [title |-> Get(raw, "title", "Unknown Title"),
          thumbnail |-> Get(raw, "thumbnail", ""),
          singer |-> Get(raw, "singer", "Unknown")]
      @@ (IF coll = COL_VIDEOS THEN [url |-> Get(raw, "url", "")] ELSE [f \in {} |-> ""])

\* a faulty normalisation: the key field is taken with .get(field, key), so an
\* empty key field of the fetcher's result is kept
Normalize_get_default(coll, raw, k) ==
    (KeyField(coll) :> Get(raw, KeyField(coll), k))
      @@ [title |-> Get(raw, "title", "Unknown Title"),
          thumbnail |-> Get(raw, "thumbnail", ""),
          singer |-> Get(raw, "singer", Get(raw, "artist", "Unknown"))]
      @@ (IF coll = COL_VIDEOS THEN [url |-> Get(raw, "url", "")] ELSE [f \in {} |-> ""])

\* a faulty normalisation: `key or fetched.get(field)`, the operands swapped
Normalize_key_first(coll, raw, k) ==
    (KeyField(coll) :> Or(k, Get(raw, KeyField(coll), None)))
      @@ [title |-> Get(raw, "title", "Unknown Title"),
          thumbnail |-> Get(raw, "thumbnail", ""),
          singer |-> Get(raw, "singer", Get(raw, "artist", "Unknown"))]
      @@ (IF coll = COL_VIDEOS THEN [url |-> Get(raw, "url", "")] ELSE [f \in {} |-> ""])

\* the normalised arguments get_track_by_youtube_id / get_video_by_id_with_cache
\* pass to save_song / save_video
Normalize(coll, raw, k) ==
    LET base == [title |-> Get(raw, "title", "Unknown Title"),
                 thumbnail |-> Get(raw, "thumbnail", ""),
                 singer |-> Get(raw, "singer", Get(raw, "artist", "Unknown"))]
        kf == KeyField(coll)
    IN  (kf :> Or(Get(raw, kf, None), k))
          @@ base
          @@ (IF coll = COL_VIDEOS THEN [url |-> Get(raw, "url", "")] ELSE [f \in {} |-> ""])

\* a faulty document: the timestamp is left out
NewDoc_without_saved_at(coll, args, now) == args @@ [type |-> TypeOf(coll)]

\* the document save_song / save_video build from their arguments
NewDoc(coll, args, now) == args @@ [type |-> TypeOf(coll), saved_at |-> now]

\* arguments of a direct save_song / save_video call
SaveArgs(coll, k) ==
    (KeyField(coll) :> k) @@ [title |-> "Song B", thumbnail |-> "", singer |-> "Singer Y"]
      @@ (IF coll = COL_VIDEOS THEN [url |-> "http://v"] ELSE [f \in {} |-> ""])

(* --------------------------------- Init -------------------------------- *)
Init ==
    /\ MONGO_URL = DefaultUrl
    /\ DB_NAME = DefaultDb
    /\ client = None
    /\ db = NoDb
    /\ colls = [a \in Addr |-> [cl \in Colls |-> <<>>]]
    /\ indexes = [a \in Addr |-> [cl \in Colls |-> {}]]
    /\ pc = [c \in CallIds |-> "idle"]
    /\ op = [c \in CallIds |-> None]
    /\ key = [c \in CallIds |-> None]
    /\ fetcher = [c \in CallIds |-> None]
    /\ found = [c \in CallIds |-> NoDoc]
    /\ fetched = [c \in CallIds |-> NoDoc]
    /\ doc = [c \in CallIds |-> NoDoc]
    /\ ret = [c \in CallIds |-> NoDoc]
    /\ err = [c \in CallIds |-> ""]
    /\ ipc = 0
    /\ initsStarted = 0
    /\ initsDone = 0
    /\ initErr = FALSE
    /\ clock = 0
    /\ faults = 0
    /\ nFetch = [c \in CallIds |-> 0]
    /\ nInsert = [c \in CallIds |-> 0]
    /\ nRead = [c \in CallIds |-> 0]
    /\ insertOutcome = [c \in CallIds |-> "none"]
    /\ fetchOutcome = [c \in CallIds |-> "none"]
    /\ absentAtCall = [c \in CallIds |-> FALSE]
    /\ overlap = [c \in CallIds |-> {}]

(* ------------------------------ _ensure_client ------------------------- *)
\* the values of _client and _db after _ensure_client() ran under configuration (u, d)
EnsuredClient(cl, u) == IF cl = None THEN u ELSE cl
\* a faulty _ensure_client: the database handle is rebound on every call
EnsuredDb_rebinds(cl, dbv, u, d) == <<u, d>>
EnsuredDb(cl, dbv, u, d) == IF cl = None THEN <<u, d>> ELSE dbv

_ensure_client ==
    /\ client' = EnsuredClient(client, MONGO_URL)
    /\ db' = EnsuredDb(client, db, MONGO_URL, DB_NAME)

(* -------------------------------- init_db ------------------------------ *)
\* the four create_index awaits of init_db, in order
IndexPlan ==
    << [coll |-> COL_SONGS, field |-> "youtube_id", unique |-> TRUE],
       [coll |-> COL_VIDEOS, field |-> "video_id", unique |-> TRUE],
       [coll |-> COL_SONGS, field |-> "title", unique |-> FALSE],
       [coll |-> COL_VIDEOS, field |-> "title", unique |-> FALSE] >>

\* init_db(mongo_url, db_name) up to its first await
init_db(u, d) ==
    /\ ipc = 0
    /\ initsStarted < MaxInits
    /\ initsStarted' = initsStarted + 1
    /\ MONGO_URL' = IF Truthy(u) THEN u ELSE MONGO_URL
    /\ DB_NAME' = IF Truthy(d) THEN d ELSE DB_NAME
    /\ client' = EnsuredClient(client, MONGO_URL')
    /\ db' = EnsuredDb(client, db, MONGO_URL', DB_NAME')
    /\ ipc' = 1
    /\ initErr' = FALSE
    /\ UNCHANGED <<colls, indexes, callVars, initsDone, clock, faults, histVars>>

\* the server builds an index; a unique index over duplicated values is refused
CanBuild(s, ix) == ix.unique => NoDuplicates(s, ix.field)

\* one create_index await of init_db completes
create_index ==
    /\ ipc \in 1..Len(IndexPlan)
    /\ LET ix == IndexPlan[ipc]
           s == colls[db][ix.coll]
       IN  IF CanBuild(s, ix)
           THEN /\ indexes' = [indexes EXCEPT ![db][ix.coll] =
                                  @ \cup {[field |-> ix.field, unique |-> ix.unique]}]
                /\ ipc' = IF ipc = Len(IndexPlan) THEN 0 ELSE ipc + 1
                /\ initsDone' = IF ipc = Len(IndexPlan) THEN initsDone + 1 ELSE initsDone
                /\ initErr' = FALSE
           ELSE /\ ipc' = 0          \* the exception leaves init_db
                /\ initErr' = TRUE
                /\ UNCHANGED <<indexes, initsDone>>
    /\ UNCHANGED <<cfgVars, colls, callVars, initsStarted, clock, faults, histVars>>


(* ------------------------------- the calls ----------------------------- *)
Active == {d \in CallIds : pc[d] \notin {"idle", "done"}}

\* bookkeeping of a call that starts: which calls it overlaps with
Overlap(c) ==
    [d \in CallIds |-> IF d = c THEN Active
                       ELSE IF d \in Active THEN overlap[d] \cup {c} ELSE overlap[d]]

\* a coroutine is started and runs up to its first await.  Call ids are handed
\* out in the order the calls start.
Begin(c, o, k, f, at) ==
    /\ pc[c] = "idle"
    /\ \A d \in CallIds : d < c => pc[d] # "idle"
    /\ _ensure_client
    /\ pc' = [pc EXCEPT ![c] = at]
    /\ op' = [op EXCEPT ![c] = o]
    /\ key' = [key EXCEPT ![c] = k]
    /\ fetcher' = [fetcher EXCEPT ![c] = f]
    /\ absentAtCall' = [absentAtCall EXCEPT ![c] =
                           ~IsDoc(find_one(colls[db'][CollOf(o)], KeyField(CollOf(o)), k))]
    /\ overlap' = Overlap(c)
    /\ UNCHANGED <<MONGO_URL, DB_NAME, colls, indexes, found, fetched, ret, err, initVars, faults>>

\* get_song_by_youtube_id(k) / get_video_by_video_id(k): _ensure_client, then await find_one
get_song_by_youtube_id(c, k) ==
    /\ Begin(c, "get_song_by_youtube_id", k, None, "lookup")
    /\ UNCHANGED <<doc, clock, nFetch, nInsert, nRead, insertOutcome, fetchOutcome>>

get_video_by_video_id(c, k) ==
    /\ Begin(c, "get_video_by_video_id", k, None, "lookup")
    /\ UNCHANGED <<doc, clock, nFetch, nInsert, nRead, insertOutcome, fetchOutcome>>

\* get_track_by_youtube_id(k, f) / get_video_by_id_with_cache(k, f) up to the
\* await of the lookup
get_track_by_youtube_id(c, k, f) ==
    /\ Begin(c, "get_track_by_youtube_id", k, f, "lookup")
    /\ UNCHANGED <<doc, clock, nFetch, nInsert, nRead, insertOutcome, fetchOutcome>>

get_video_by_id_with_cache(c, k, f) ==
    /\ Begin(c, "get_video_by_id_with_cache", k, f, "lookup")
    /\ UNCHANGED <<doc, clock, nFetch, nInsert, nRead, insertOutcome, fetchOutcome>>

\* save_song / save_video up to `await coll.insert_one(doc)`: the document is
\* built with the current time
BuildAndInsert(c, coll, args) ==
    /\ doc' = [doc EXCEPT ![c] = NewDoc(coll, args, clock)]
    /\ clock' = clock + 1
    /\ nInsert' = [nInsert EXCEPT ![c] = @ + 1]

save_song(c, k) ==
    /\ Begin(c, "save_song", k, None, "insert")
    /\ BuildAndInsert(c, COL_SONGS, SaveArgs(COL_SONGS, k))
    /\ UNCHANGED <<nFetch, nRead, insertOutcome, fetchOutcome>>

save_video(c, k) ==
    /\ Begin(c, "save_video", k, None, "insert")
    /\ BuildAndInsert(c, COL_VIDEOS, SaveArgs(COL_VIDEOS, k))
    /\ UNCHANGED <<nFetch, nRead, insertOutcome, fetchOutcome>>

\* faulty branches: the hit is not tested; a miss without fetcher returns None
AfterLookup_no_hit_test(fnd, f) == IF f = None THEN "raise" ELSE "fetch"
AfterLookup_returns_none(fnd, f) ==
    IF IsDoc(fnd) THEN "return" ELSE IF f = None THEN "return" ELSE "fetch"

\* the branch taken after the lookup of get_track_by_youtube_id /
\* get_video_by_id_with_cache: `if found: return found`, `if fetch_if_missing
\* is None: raise LookupError`, else the fetcher is called
AfterLookup(fnd, f) ==
    IF IsDoc(fnd) THEN "return" ELSE IF f = None THEN "raise" ELSE "fetch"

\* the lookup's find_one completes
Lookup(c) ==
    /\ pc[c] = "lookup"
    /\ LET coll == CollOf(op[c])
           fnd == find_one(colls[db][coll], KeyField(coll), key[c])
           br == IF op[c] \in FindOps THEN "return" ELSE AfterLookup(fnd, fetcher[c])
       IN  /\ found' = [found EXCEPT ![c] = fnd]
           /\ nRead' = [nRead EXCEPT ![c] = @ + 1]
           /\ pc' = [pc EXCEPT ![c] = IF br = "fetch" THEN "fetch" ELSE "done"]
           /\ ret' = [ret EXCEPT ![c] = IF br = "return" THEN fnd ELSE @]
           /\ err' = [err EXCEPT ![c] = IF br = "raise" THEN "LookupError" ELSE @]
           /\ nFetch' = [nFetch EXCEPT ![c] = IF br = "fetch" THEN @ + 1 ELSE @]
    /\ UNCHANGED <<cfgVars, colls, indexes, op, key, fetcher, fetched, doc, initVars, clock, faults,
                   nInsert, insertOutcome, fetchOutcome, absentAtCall, overlap>>

\* the fetcher returns a dict: the fields are normalised and save_song /
\* save_video runs up to its insert_one
FetchReturnsOf(c, raw, results) ==
    /\ pc[c] = "fetch"
    /\ LET coll == CollOf(op[c])
       IN  /\ raw \in results
           /\ fetched' = [fetched EXCEPT ![c] = raw]
           /\ fetchOutcome' = [fetchOutcome EXCEPT ![c] = "dict"]
           /\ _ensure_client
           /\ BuildAndInsert(c, coll, Normalize(coll, raw, key[c]))
    /\ pc' = [pc EXCEPT ![c] = "insert"]
    /\ UNCHANGED <<MONGO_URL, DB_NAME, colls, indexes, op, key, fetcher, found, ret, err,
                   initVars, faults, nFetch, nRead, insertOutcome, absentAtCall, overlap>>

FetchErrors == {"FetchError", "AttributeError"}

\* a faulty handler: a failed fetch is replaced by an empty result and saved
AfterFetch_saves_defaults(e) == "save"

\* what get_track_by_youtube_id / get_video_by_id_with_cache do when the await
\* of the fetcher, or fetched.get on its result, raises: nothing catches it
AfterFetch(e) == "raise"

FetchReturns(c, raw) == FetchReturnsOf(c, raw, RawResults(KeyField(CollOf(op[c]))))

\* the same, for a fetcher that may return a dict of any shape
FetchReturnsAny(c, raw) == FetchReturnsOf(c, raw, WideRawResults(KeyField(CollOf(op[c]))))

\* the fetcher raises, or returns something that is no dict (fetched.get raises)
FetchFails(c, e) ==
    /\ pc[c] = "fetch"
    /\ e \in FetchErrors
    /\ fetchOutcome' = [fetchOutcome EXCEPT ![c] = e]
    /\ IF AfterFetch(e) = "raise"
       THEN /\ pc' = [pc EXCEPT ![c] = "done"]
            /\ err' = [err EXCEPT ![c] = e]
            /\ UNCHANGED <<client, db, fetched, doc, clock, nInsert>>
       ELSE /\ pc' = [pc EXCEPT ![c] = "insert"]
            /\ fetched' = [fetched EXCEPT ![c] = [f \in {} |-> ""]]
            /\ _ensure_client
            /\ BuildAndInsert(c, CollOf(op[c]), Normalize(CollOf(op[c]), [f \in {} |-> ""], key[c]))
            /\ err' = err
    /\ UNCHANGED <<MONGO_URL, DB_NAME, colls, indexes, op, key, fetcher, found, ret,
                   initVars, faults, nFetch, nRead, insertOutcome, absentAtCall, overlap>>

\* the ObjectId the driver puts into a document it is asked to insert
WithId(d, c) == d @@ [_id |-> c]

\* a faulty handler: the built document is returned whatever the answer
AfterInsert_always_return(outcome) == "return"

\* what save_song / save_video do with the answer to insert_one: return the
\* document, or (`except Exception`) re-read by key
AfterInsert(outcome) == IF outcome = "ok" THEN "return" ELSE "reread"

\* the store answers insert_one
InsertAnswered(c, outcome) ==
    /\ pc[c] = "insert"
    /\ LET coll == CollOf(op[c])
           d == WithId(doc[c], c)
           dup == DuplicateKey(colls[db][coll], indexes[db][coll], d)
       IN  /\ \/ outcome = "ok" /\ ~dup
              \/ outcome = "dup" /\ dup
              \/ outcome = "fault" /\ faults < MaxFaults
           /\ doc' = [doc EXCEPT ![c] = d]
           /\ colls' = IF outcome = "ok"
                       THEN [colls EXCEPT ![db][coll] = insert_one(@, d)] ELSE colls
           /\ faults' = IF outcome = "fault" THEN faults + 1 ELSE faults
           /\ insertOutcome' = [insertOutcome EXCEPT ![c] = outcome]
           /\ IF AfterInsert(outcome) = "return"
              THEN /\ ret' = [ret EXCEPT ![c] = d]
                   /\ pc' = [pc EXCEPT ![c] = "done"]
                   /\ nRead' = nRead
              ELSE /\ ret' = ret
                   /\ pc' = [pc EXCEPT ![c] = "reread"]
                   /\ nRead' = [nRead EXCEPT ![c] = @ + 1]
    /\ UNCHANGED <<cfgVars, indexes, op, key, fetcher, found, fetched, err, initVars, clock,
                   nFetch, nInsert, fetchOutcome, absentAtCall, overlap>>

\* the key save_song / save_video re-read by after a failed insert
RereadKey(c) == doc[c][KeyField(CollOf(op[c]))]

\* the re-read's find_one completes; its result is returned
Reread(c) ==
    /\ pc[c] = "reread"
    /\ LET coll == CollOf(op[c])
       IN  ret' = [ret EXCEPT ![c] = find_one(colls[db][coll], KeyField(coll), RereadKey(c))]
    /\ pc' = [pc EXCEPT ![c] = "done"]
    /\ UNCHANGED <<cfgVars, colls, indexes, op, key, fetcher, found, fetched, doc, err,
                   initVars, clock, faults, histVars>>

(* ---------------------------------- Next ------------------------------- *)
InitArgs == {<<None, None>>, <<OtherUrl, OtherDb>>}

Next ==
    \/ \E a \in InitArgs : init_db(a[1], a[2])
    \/ create_index
    \/ \E c \in CallIds, k \in Keys : get_song_by_youtube_id(c, k)
    \/ \E c \in CallIds, k \in Keys : get_video_by_video_id(c, k)
    \/ \E c \in CallIds, k \in Keys, f \in {None, "fetch_fn"} : get_track_by_youtube_id(c, k, f)
    \/ \E c \in CallIds, k \in Keys, f \in {None, "fetch_fn"} : get_video_by_id_with_cache(c, k, f)
    \/ \E c \in CallIds, k \in Keys : save_song(c, k)
    \/ \E c \in CallIds, k \in Keys : save_video(c, k)
    \/ \E c \in CallIds : Lookup(c)
    \/ \E c \in CallIds : \E raw \in RawResults(KeyField(CollOf(op[c]))) : FetchReturns(c, raw)
    \/ \E c \in CallIds, e \in FetchErrors : FetchFails(c, e)
    \/ \E c \in CallIds, o \in {"ok", "dup", "fault"} : InsertAnswered(c, o)
    \/ \E c \in CallIds : Reread(c)

Spec == Init /\ [][Next]_vars

(* ---------------------------- normalisation ---------------------------- *)
\* one get-or-fetch call on a fresh store, its fetcher returning any shape of dict
NextNormalize ==
    \/ \E k \in Keys : get_track_by_youtube_id(1, k, "fetch_fn")
    \/ \E k \in Keys : get_video_by_id_with_cache(1, k, "fetch_fn")
    \/ Lookup(1)
    \/ pc[1] = "fetch" /\ \E raw \in WideRawResults(KeyField(CollOf(op[1]))) : FetchReturnsAny(1, raw)
    \/ \E o \in {"ok", "dup", "fault"} : InsertAnswered(1, o)
    \/ Reread(1)

SpecNormalize == Init /\ [][NextNormalize]_vars

(* ------------------------------ cancellation --------------------------- *)
\* The caller cancels the task of a get-or-fetch call c while it is suspended at an await:
\* CancelledError is raised there and, being no Exception (Python 3.8 and
\* later), passes the `except Exception` of save_song / save_video.  An
\* insert_one already handed to the driver is either dropped or still
\* executed by the store, with nobody awaiting its answer ("detached").
Cancel(c, landing) ==
    /\ op[c] \in GetOps
    /\ pc[c] \in {"lookup", "fetch", "insert", "reread"}
    /\ landing \in {"done", "detached"}
    /\ landing = "detached" => pc[c] = "insert"
    /\ pc' = [pc EXCEPT ![c] = landing]
    /\ err' = [err EXCEPT ![c] = "CancelledError"]
    /\ UNCHANGED <<cfgVars, colls, indexes, op, key, fetcher, found, fetched, doc, ret,
                   initVars, clock, faults, histVars>>

\* the store executes the insert_one of a cancelled call
DetachedInsert(c) ==
    /\ pc[c] = "detached"
    /\ LET coll == CollOf(op[c])
           d == WithId(doc[c], c)
       IN  colls' = IF DuplicateKey(colls[db][coll], indexes[db][coll], d)
                   THEN colls
                   ELSE [colls EXCEPT ![db][coll] = insert_one(@, d)]
    /\ pc' = [pc EXCEPT ![c] = "done"]
    /\ UNCHANGED <<cfgVars, indexes, op, key, fetcher, found, fetched, doc, ret, err,
                   initVars, clock, faults, histVars>>

NextCancel ==
    \/ Next
    \/ \E c \in CallIds, l \in {"done", "detached"} : Cancel(c, l)
    \/ \E c \in CallIds : DetachedInsert(c)

SpecCancel == Init /\ [][NextCancel]_vars


(* ======================================================================= *)
(*                               The claims                                *)
(* ======================================================================= *)
Done(c) == pc[c] = "done"
Completes(c) == pc[c] # "done" /\ pc'[c] = "done"
KeyOf(c) == KeyField(CollOf(op[c]))
StoreOf(c) == colls[db][CollOf(op[c])]
Stored(s) == {s[i] : i \in 1..Len(s)}
KeyCount(c) == Cardinality(Matches(StoreOf(c), KeyOf(c), key[c]))
\* the key field of the fetcher's result, None when it has none
RawKey(c) == Get(fetched[c], KeyOf(c), None)

(* C1: in every reachable state every collection holds at most one record   *)
(* per value of its key field (youtube_id for songs, video_id for videos).  *)
C1_UniqueKeys ==
    \A a \in Addr, cl \in Colls : NoDuplicates(colls[a][cl], KeyField(cl))

\* two get-or-fetch calls of one kind on one key, absent when each started,
\* that were in flight at the same time
Racers(c, d) ==
    /\ c # d
    /\ op[c] \in GetOps /\ op[d] = op[c] /\ key[d] = key[c]
    /\ d \in overlap[c]
    /\ absentAtCall[c] /\ absentAtCall[d]
\* the call finished with a record for its own key: found it, or its insert
\* of a document with that key was accepted or rejected as a duplicate
Served(c) ==
    /\ Done(c) /\ err[c] = ""
    /\ \/ IsDoc(found[c])
       \/ insertOutcome[c] \in {"ok", "dup"} /\ doc[c][KeyOf(c)] = key[c]

(* C2: when concurrent get-or-fetch calls on the same key, absent when they *)
(* started, have all finished, the store holds exactly one record with that *)
(* key.  Stated for the runs that favour the claim most: every fetcher      *)
(* succeeded with that key and the store failed no request.                 *)
C2_ConcurrentOneRecord ==
    \A c, d \in CallIds : Racers(c, d) /\ Served(c) /\ Served(d) => KeyCount(c) = 1

\* the step in which call c's lookup is answered, for a key that has a record
LookupHit(c) ==
    /\ pc[c] = "lookup" /\ pc'[c] # "lookup"
    /\ op[c] \in GetOps
    /\ Matches(StoreOf(c), KeyOf(c), key[c]) # {}

(* C3: a get-or-fetch call whose lookup finds a record for its key returns  *)
(* exactly that stored record, at once: the fetcher is not invoked, no      *)
(* insert is requested, and collections and indexes are left unchanged.     *)
C3_HitReturnsExisting ==
    [][\A c \in CallIds : LookupHit(c) =>
          /\ pc'[c] = "done" /\ err'[c] = ""
          /\ ret'[c] \in Stored(StoreOf(c)) /\ ret'[c][KeyOf(c)] = key[c]
          /\ ret'[c] = found'[c]
          /\ nFetch'[c] = 0 /\ nInsert'[c] = 0
          /\ colls' = colls /\ indexes' = indexes]_vars

C3_Witness ==
    \E c \in CallIds :
        /\ Done(c) /\ op[c] \in GetOps /\ fetcher[c] # None
        /\ IsDoc(found[c]) /\ ret[c] = found[c] /\ nFetch[c] = 0

\* call c was a get-or-fetch call that overlapped no other call, missed at its
\* lookup and got a dict from its fetcher
SoloMissFetched(c) ==
    /\ op[c] \in GetOps /\ overlap[c] = {}
    /\ nRead[c] >= 1 /\ ~IsDoc(found[c])
    /\ IsDoc(fetched[c])

C5_Original ==
    \A c \in CallIds :
        Done(c) /\ op[c] \in GetOps /\ err[c] = "" /\ IsDoc(ret[c])
            => ret[c][KeyOf(c)] = key[c]

(* C5 as amended: every record a get-or-fetch call returns has its key      *)
(* field equal to the requested key when the lookup found it, and otherwise *)
(* to the key field of the fetcher's result when that is present and not    *)
(* empty, else to the requested key.                                        *)
C5_ReturnedKey ==
    \A c \in CallIds :
        Done(c) /\ op[c] \in GetOps /\ err[c] = "" /\ IsDoc(ret[c])
            => ret[c][KeyOf(c)] =
                  IF IsDoc(found[c]) THEN key[c]
                  ELSE IF RawKey(c) \in {None, ""} THEN key[c] ELSE RawKey(c)

C5_Witness ==
    \E c \in CallIds :
        /\ Done(c) /\ op[c] \in GetOps /\ err[c] = "" /\ IsDoc(ret[c])
        /\ ~IsDoc(found[c]) /\ RawKey(c) \notin {None, "", key[c]}
        /\ ret[c][KeyOf(c)] = RawKey(c)

(* C6: a record, once in a collection, stays there with every field         *)
(* (saved_at and _id included) unchanged and at the same position: no step  *)
(* overwrites, updates or deletes it.                                       *)
C6_RecordsNeverChange ==
    [][\A a \in Addr, cl \in Colls : \A i \in 1..Len(colls[a][cl]) :
          /\ i <= Len(colls'[a][cl])
          /\ colls'[a][cl][i] = colls[a][cl][i]]_vars

C6_Witness ==
    \E c, d \in CallIds :
        /\ c # d /\ Done(c) /\ Done(d) /\ op[d] \in SaveOps \cup GetOps
        /\ CollOf(op[c]) = CollOf(op[d])
        /\ insertOutcome[c] = "ok" /\ insertOutcome[d] \in {"ok", "dup"}
        /\ doc[d][KeyOf(d)] = doc[c][KeyOf(c)]
        /\ c \notin overlap[d]
        /\ StoreOf(c)[1] = ret[c]

(* C7: an insert the store fails for another reason than a duplicate key is *)
(* not handled: the call ends with an error raised to its caller.           *)
C7_InsertFailurePropagates ==
    \A c \in CallIds : Done(c) /\ insertOutcome[c] = "fault" => err[c] # ""

(* C8: a get-or-fetch call whose insert is rejected as a duplicate re-reads *)
(* by the key of the rejected document; the re-read finds a record; the     *)
(* call returns that stored record, not the document it built, and raises   *)
(* no error.                                                                *)
C8_ConflictReturnsStored ==
    \A c \in CallIds : op[c] \in GetOps /\ insertOutcome[c] = "dup" =>
        /\ pc[c] \in {"reread", "done"}
        /\ nRead[c] = 2
        /\ IsDoc(find_one(StoreOf(c), KeyOf(c), doc[c][KeyOf(c)]))
        /\ Done(c) =>
             /\ err[c] = "" /\ IsDoc(ret[c])
             /\ ret[c] \in Stored(StoreOf(c))
             /\ ret[c][KeyOf(c)] = doc[c][KeyOf(c)]
             /\ ret[c] # doc[c]

C8_Witness ==
    \E c \in CallIds :
        /\ Done(c) /\ op[c] \in GetOps /\ insertOutcome[c] = "dup"
        /\ ~IsDoc(found[c]) /\ doc[c][KeyOf(c)] = key[c]
        /\ IsDoc(ret[c]) /\ ret[c] # doc[c]

(* C9: init_db has completed before the first insert is requested.          *)
C9_IndexesBeforeInsert ==
    \A c \in CallIds : nInsert[c] > 0 => initsDone > 0

\* the step in which call c's lookup is answered, for a key without a record,
\* and no fetcher was supplied
LookupMissNoFetcher(c) ==
    /\ pc[c] = "lookup" /\ pc'[c] # "lookup"
    /\ op[c] \in GetOps
    /\ Matches(StoreOf(c), KeyOf(c), key[c]) = {}
    /\ fetcher[c] = None

(* C10: a get-or-fetch call without a fetcher whose lookup finds no record  *)
(* raises LookupError and returns nothing; it invokes no fetcher, requests  *)
(* no insert and leaves collections and indexes unchanged.                  *)
C10_NotFoundNoFetcher ==
    [][\A c \in CallIds : LookupMissNoFetcher(c) =>
          /\ pc'[c] = "done" /\ err'[c] = "LookupError" /\ ret'[c] = NoDoc
          /\ nFetch'[c] = 0 /\ nInsert'[c] = 0
          /\ colls' = colls /\ indexes' = indexes]_vars

C10_Witness ==
    \E c \in CallIds :
        /\ Done(c) /\ op[c] \in GetOps /\ fetcher[c] = None
        /\ nRead[c] = 1 /\ ~IsDoc(found[c]) /\ err[c] = "LookupError"


\* the step in which the fetcher of call c fails
FetcherFails(c) == fetchOutcome[c] = "none" /\ fetchOutcome'[c] \in FetchErrors

DocFields(cl) ==
    {KeyField(cl), "title", "thumbnail", "singer", "type", "saved_at", "_id"}
        \cup (IF cl = COL_VIDEOS THEN {"url"} ELSE {})
CompleteDocs ==
    \A a \in Addr, cl \in Colls : \A i \in 1..Len(colls[a][cl]) :
        DOMAIN colls[a][cl][i] = DocFields(cl)
\* the records in call c's collection that call c inserted
OwnRecords(c) == {i \in 1..Len(StoreOf(c)) : StoreOf(c)[i]["_id"] = c}
Cancelled(c) == err[c] = "CancelledError"

(* C12 as claimed: no collection ever holds a partial record, and a call    *)
(* that was cancelled (at any await: its insert had not completed then) has *)
(* left no record of its own in the store.                                  *)
C12_Original ==
    /\ CompleteDocs
    /\ \A c \in CallIds : Cancelled(c) => OwnRecords(c) = {}

(* C12 as amended: no collection ever holds a partial record; a cancelled   *)
(* call has left at most one record of its own; and it has left none when   *)
(* it was cancelled before its insert was requested (at the lookup or at    *)
(* the fetch) or after its insert was answered (at the re-read).  A call    *)
(* cancelled while insert_one is in flight may still get its record stored. *)
C12_CancelLeavesNoPartial ==
    /\ CompleteDocs
    /\ \A c \in CallIds : Cancelled(c) =>
          /\ Cardinality(OwnRecords(c)) <= 1
          /\ nInsert[c] = 0 \/ insertOutcome[c] # "none" => OwnRecords(c) = {}

C12_Witness ==
    \E c, d \in CallIds :
        /\ Cancelled(c) /\ Done(c) /\ nFetch[c] = 1 /\ nInsert[c] = 0
        /\ OwnRecords(c) = {}
        /\ Cancelled(d) /\ Done(d) /\ op[d] \in GetOps /\ Cardinality(OwnRecords(d)) = 1


\* the record call c inserted
OwnRecord(c) == StoreOf(c)[CHOOSE i \in OwnRecords(c) : TRUE]
\* the field f of the fetcher's result of call c if present, else the default
RawOr(c, f, default) == IF f \in DOMAIN fetched[c] THEN fetched[c][f] ELSE default
\* what claim C13 says of every field but the key field
DescriptiveFields(c, r) ==
    /\ DOMAIN r = DocFields(CollOf(op[c]))
    /\ r.title = RawOr(c, "title", "Unknown Title")
    /\ r.thumbnail = RawOr(c, "thumbnail", "")
    /\ r.singer = RawOr(c, "singer", RawOr(c, "artist", "Unknown"))
    /\ op[c] = "get_video_by_id_with_cache" => r.url = RawOr(c, "url", "")
    /\ r.type = (IF op[c] = "get_track_by_youtube_id" THEN "song" ELSE "video")
Inserted(c) == op[c] \in GetOps /\ insertOutcome[c] = "ok"

(* C13 as claimed: the record a get-or-fetch call inserts has the key field *)
(* of the fetcher's result if present, else the requested key; title,       *)
(* thumbnail, singer (else artist), url as in the result if present, else   *)
(* "Unknown Title", "", "Unknown", ""; and the type of its kind.            *)
C13_Original ==
    \A c \in CallIds : Inserted(c) =>
        /\ OwnRecords(c) # {}
        /\ OwnRecord(c)[KeyOf(c)] = RawOr(c, KeyOf(c), key[c])
        /\ DescriptiveFields(c, OwnRecord(c))

(* C13 as amended: the same, but the key field is that of the fetcher's     *)
(* result only if present and not empty, else the requested key.            *)
C13_NormalizedRecord ==
    \A c \in CallIds : Inserted(c) =>
        /\ OwnRecords(c) # {}
        /\ OwnRecord(c)[KeyOf(c)] =
              (IF RawOr(c, KeyOf(c), "") = "" THEN key[c] ELSE fetched[c][KeyOf(c)])
        /\ DescriptiveFields(c, OwnRecord(c))

C13_Witness ==
    \E c \in CallIds :
        /\ Inserted(c) /\ op[c] = "get_track_by_youtube_id" /\ DOMAIN fetched[c] = {}
        /\ OwnRecord(c).youtube_id = key[c] /\ OwnRecord(c).title = "Unknown Title"
        /\ OwnRecord(c).thumbnail = "" /\ OwnRecord(c).singer = "Unknown"
        /\ OwnRecord(c).type = "song"


\* d is a get-or-fetch call of the kind and key of c that started after c ended
Follows(c, d) ==
    /\ c < d /\ pc[d] # "idle"
    /\ op[c] \in GetOps /\ op[d] = op[c] /\ key[d] = key[c]
    /\ c \notin overlap[d]

(* C14 as claimed: of two get-or-fetch calls of one kind on one key that do *)
(* not overlap, the first starting with the key absent, at most one invokes *)
(* the fetcher.                                                             *)
C14_Original ==
    \A c, d \in CallIds : Follows(c, d) /\ absentAtCall[c] => nFetch[c] + nFetch[d] <= 1

(* C14 as amended: the same, provided the first call ended with a record    *)
(* stored under the requested key (its fetcher returned a dict whose key    *)
(* field is absent, empty or that key, and the insert was accepted or       *)
(* rejected as a duplicate): then the later call never invokes the fetcher. *)
C14_FetchOncePerKey ==
    \A c, d \in CallIds : Follows(c, d) /\ absentAtCall[c] /\ Served(c) =>
        nFetch[d] = 0 /\ nFetch[c] + nFetch[d] <= 1

C14_Witness ==
    \E c, d \in CallIds :
        /\ Follows(c, d) /\ absentAtCall[c] /\ Served(c) /\ nFetch[c] = 1
        /\ Done(d) /\ fetcher[d] # None /\ nFetch[d] = 0 /\ ret[d] = ret[c]


(* C15: a finished save_song / save_video call has returned a document that *)
(* is stored under the given key, never None.                               *)
C15_SaveReturnsStored ==
    \A c \in CallIds : op[c] \in SaveOps /\ Done(c) =>
        /\ IsDoc(ret[c])
        /\ ret[c] \in Stored(StoreOf(c))
        /\ ret[c][KeyOf(c)] = key[c]


\* the index declarations the claim names for a collection
DeclaredIndexes(cl) ==
    { [field |-> KeyField(cl), unique |-> TRUE], [field |-> "title", unique |-> FALSE] }
\* a step of init_db: its start or one of its create_index awaits
InitStep == initsStarted' # initsStarted \/ ipc' # ipc

(* C16: init_db is idempotent.  Once a first init_db call has ended, no     *)
(* later init_db call changes any index declaration; once an init_db call   *)
(* has returned, each collection of the database has exactly one unique     *)
(* index on its key field and one non-unique index on title; and no step of *)
(* init_db changes a stored record.                                         *)
C16_InitIdempotent ==
    /\ [](initsDone >= 1 => \A cl \in Colls : indexes[db][cl] = DeclaredIndexes(cl))
    /\ [][initsStarted' >= 2 => indexes' = indexes]_vars
    /\ [][InitStep => colls' = colls]_vars

C16_Witness ==
    /\ initsDone = 2
    /\ \E cl \in Colls : colls[db][cl] # <<>>
    /\ \A cl \in Colls : indexes[db][cl] = DeclaredIndexes(cl)


\* the store or the fetcher answers the request call c is waiting on
Responds(c) ==
    \/ Lookup(c)
    \/ \E raw \in RawResults(KeyField(CollOf(op[c]))) : FetchReturns(c, raw)
    \/ \E e \in FetchErrors : FetchFails(c, e)
    \/ \E o \in {"ok", "dup", "fault"} : InsertAnswered(c, o)
    \/ Reread(c)
\* every request of every call is eventually answered
FairSpec == Spec /\ \A c \in CallIds : WF_vars(Responds(c))

\* what a get-or-fetch call has used: store reads, fetcher calls, inserts
WithinBudget(c) == nRead[c] <= 2 /\ nFetch[c] <= 1 /\ nInsert[c] <= 1

(* C17: every get-or-fetch call that has started ends, having returned a    *)
(* record or raised an error, provided each of its requests is answered;    *)
(* it never performs more than two store reads, one fetcher call and one    *)
(* insert.                                                                  *)
C17_TerminatesWithinBudget ==
    /\ [](\A c \in CallIds : op[c] \in GetOps => WithinBudget(c))
    /\ \A c \in CallIds :
        (op[c] \in GetOps /\ pc[c] # "idle") ~> (Done(c) /\ (IsDoc(ret[c]) \/ err[c] # ""))

\* the same without the outcome: the call ends within its budget
C17_Ends ==
    /\ [](\A c \in CallIds : op[c] \in GetOps => WithinBudget(c))
    /\ \A c \in CallIds : (op[c] \in GetOps /\ pc[c] # "idle") ~> Done(c)


(* C18: while the last init_db call has returned and no other is running,   *)
(* the database handle every store operation goes through is the database   *)
(* DB_NAME at address MONGO_URL, the values that call left in the module's  *)
(* settings (its arguments when given).                                     *)
C18_InitSelectsDatabase ==
    (initsStarted >= 1 /\ ipc = 0 /\ ~initErr) => db = <<MONGO_URL, DB_NAME>>


(* C19: a record a finished get-or-fetch call has returned is, at the       *)
(* moment of the return and ever after, a record of its collection, equal   *)
(* in every field, _id included.                                            *)
C19_ReturnedIsStored ==
    \A c \in CallIds : op[c] \in GetOps /\ Done(c) /\ IsDoc(ret[c]) =>
        /\ ret[c] \in Stored(StoreOf(c))
        /\ "_id" \in DOMAIN ret[c]

\* a call returns what it has just fetched and inserted
C19_Witness ==
    \E c \in CallIds :
        /\ op[c] \in GetOps /\ Done(c) /\ IsDoc(ret[c])
        /\ nFetch[c] = 1 /\ insertOutcome[c] = "ok"
        /\ ret[c] \in Stored(StoreOf(c))


\* the collection of the other kind, and the type literal of the own kind
OtherColl(o) == IF o \in SongOps THEN COL_VIDEOS ELSE COL_SONGS
OwnType(o) == IF o \in SongOps THEN "song" ELSE "video"
OwnKey(o) == IF o \in SongOps THEN "youtube_id" ELSE "video_id"
OwnColl(o) == IF o \in SongOps THEN COL_SONGS ELSE COL_VIDEOS

(* C20: the two kinds are independent.  No step of a song operation changes *)
(* a video collection and no step of a video operation changes a song       *)
(* collection; an insert is rejected as a duplicate only when its own       *)
(* collection holds the key; a returned record is of the operation's kind.  *)
C20_KindsIndependent ==
    /\ [][\A c \in CallIds : pc'[c] # pc[c] =>
            \A a \in Addr : colls'[a][OtherColl(op'[c])] = colls[a][OtherColl(op'[c])]]_vars
    /\ [](\A c \in CallIds : insertOutcome[c] = "dup" =>
            Matches(colls[db][OwnColl(op[c])], OwnKey(op[c]), doc[c][OwnKey(op[c])]) # {})
    /\ [](\A c \in CallIds : Done(c) /\ IsDoc(ret[c]) => ret[c]["type"] = OwnType(op[c]))

\* one identifier stored as a song and as a video, each insert accepted
C20_Witness ==
    \E c, d \in CallIds :
        /\ Done(c) /\ Done(d) /\ op[c] \in SongOps /\ op[d] \notin SongOps
        /\ insertOutcome[c] = "ok" /\ insertOutcome[d] = "ok"
        /\ ret[c]["youtube_id"] = ret[d]["video_id"]
        /\ ret[c] \in Stored(colls[db][COL_SONGS]) /\ ret[d] \in Stored(colls[db][COL_VIDEOS])
        /\ \A cl \in Colls : HasUnique(indexes[db][cl], KeyField(cl))

====
